---------------------------- MODULE Spec2Model ----------------------------
(***************************************************************************)
(* A model of the everscale-network core: the ADNL channel                 *)
(* (src/src/adnl_node/channel.rs), the RLDP query engine                   *)
(* (src/src/rldp_node/mod.rs) and the DHT peer iterator                    *)
(* (src/src/dht/peers_iter.rs).                                            *)
(*                                                                         *)
(* Each subsystem has its own specification over the shared variables:     *)
(*   SpecChannel  AdnlChannel::new / encrypt / decrypt                     *)
(*   SpecDrop     update_drop_timeout / reset_drop_timeout                 *)
(*   SpecQuery    RldpNode::query and its tasks                            *)
(*   SpecAbandon  the same with a caller that may drop the future, under   *)
(*                fair scheduling of the tasks                             *)
(*   SpecRtt      update_roundtrip / calc_timeout                          *)
(*   SpecPeers    PeersIter::fill / next                                   *)
(***************************************************************************)
EXTENDS Integers, Sequences, FiniteSets, TLC

VARIABLES
    \* ---- ADNL channel (channel.rs) ----
    chans,      \* the two AdnlChannel objects, at peer "a" and at peer "b"
    cpc,        \* position of the channel scenario
    sender,     \* which peer encrypted the packet in flight
    payload,    \* the plaintext handed to encrypt
    wire,       \* the datagram in flight (Vec<u8> after encrypt)
    mutation,   \* what the network did to the datagram
    view,       \* the receiver's PacketView
    dres,       \* the result of decrypt
    \* ---- drop deadline (channel.rs) ----
    drop,       \* AdnlChannel::drop, the AtomicI32
    calls,      \* per thread: the last call it made and what it returned
    last,       \* the last atomic operation on drop: kind, now, before
    updatesSinceReset,  \* update_drop_timeout calls since the last reset
    writesSinceReset,   \* of these, the calls whose compare-and-swap wrote
    \* ---- RLDP query (rldp_node/mod.rs) ----
    qpc,            \* position of the task running RldpNode::query
    rpc,            \* position of the spawned receive_loop task: unspawned, recv,
                    \* set_reply, closing, finished
    cleanup,        \* the spawned deferred cleanup: none, sleeping, done
    transfers,      \* RldpNode::transfers, TransferId -> RldpTransfer
    peer_queries,   \* the peer handle: calls of begin_query and of end_query
    query_id,       \* query_id of this call
    ids,            \* outgoing_transfer_id and incoming_transfer_id
    arg_roundtrip,  \* the roundtrip argument of query
    num_parts,      \* parts the serialized query is sliced into
    out_state,      \* OutgoingTransferState: part, seqno_in, reply_received
    send,           \* locals of send_loop: part, wave, sent, incoming_seqno, ok
    roundtrip,      \* roundtrip of send_loop, then of query_transfer_loop
    timeout,        \* timeout of send_loop, then of query_transfer_loop
    elapsed,        \* milliseconds since start (start.elapsed())
    emitted,        \* whether send_loop has sent a chunk
    incoming,       \* IncomingTransfer: total_size, data, state().updates
    queue,          \* the unbounded channel parts_tx -> parts_rx
    rx_closed,      \* parts_rx.close() was called
    delivered,      \* message parts the dispatcher has routed so far
    barrier,        \* the barrier cell of query_transfer_loop
    updates,        \* updates of query_transfer_loop
    loop_result,    \* what query_transfer_loop returned
    result,         \* what query returned
    peer_reply,     \* the message the peer answers with
    timed_out,      \* which loop timed out, and the roundtrip it had then
    \* ---- round-trip arithmetic (rldp_node/mod.rs) ----
    rtt,            \* a roundtrip cell: its value, and the calls of update_roundtrip on it
    probe,          \* the last call of calc_timeout: its argument and what it returned
    \* ---- DHT peer iterator (dht/peers_iter.rs) ----
    key_id,         \* PeersIter::key_id
    known_peers,    \* dht.known_peers(), in insertion order
    bad_peers,      \* the peers for which dht.is_bad_peer holds
    peer_ids,       \* PeersIter::peer_ids, pairs (affinity, peer id)
    index,          \* PeersIter::index
    examined,       \* per position of known_peers: how often a fill took the peer
                    \* as a candidate, how often it skipped it as bad
    popped,         \* affinities of the peers next() returned since the last fill
    filled          \* the last call on the iterator: fill (its batch_len, the
                    \* vector before the trim, the length of known_peers) or
                    \* next (what it returned), and the fills so far

chanVars == <<chans, cpc, sender, payload, wire, mutation, view, dres>>
dropVars == <<drop, calls, last, updatesSinceReset, writesSinceReset>>
queryVars == <<qpc, rpc, cleanup, transfers, peer_queries, query_id, ids,
               arg_roundtrip, num_parts, out_state, send, roundtrip, timeout,
               elapsed, emitted, incoming, queue, rx_closed, delivered, barrier,
               updates, loop_result, result, peer_reply, timed_out>>
rttVars == <<rtt, probe>>
iterVars == <<key_id, known_peers, bad_peers, peer_ids, index, examined, popped, filled>>
vars == <<chanVars, dropVars, queryVars, rttVars, iterVars>>

(***************************************************************************)
(* Bounds of the model.                                                    *)
(***************************************************************************)
MaxNodeId == 1          \* node ids are 0..MaxNodeId
MaxPayloadLen == 1      \* payloads of 0..MaxPayloadLen bytes
MaxNow == 2             \* update_drop_timeout(now), now in 0..MaxNow
MaxThreads == 2         \* threads calling the drop-timer operations
MaxUpdates == 3         \* update_drop_timeout calls between two resets
MaxParts == 1           \* the query is sliced into 1..MaxParts parts
MaxDelivered == 2       \* message parts and confirmations of the peer that are routed
MaxRttCalls == 3        \* calls of update_roundtrip on one roundtrip cell
MaxKnownPeers == 3      \* length of dht.known_peers()
MaxBatchLen == 1        \* fill(dht, Some(B)) with B in 0..MaxBatchLen
MaxFills == 2           \* calls of fill on one iterator
MaxBadPeers == 1        \* known peers that are flagged bad

(***************************************************************************)
(* Constants of the program.                                               *)
(***************************************************************************)
CHANNEL_RESET_TIMEOUT == 30
MIN_TIMEOUT == 500
MAX_TIMEOUT == 10000
TRANSFER_LOOP_INTERVAL == 10
MAX_TRANSFER_WAVE == 10

\* Option<T>: None, or Some(x) holding x
None == <<>>
Some(x) == <<x>>

Min(a, b) == IF a < b THEN a ELSE b
Max(a, b) == IF a > b THEN a ELSE b

(***************************************************************************)
(* Bytes and byte strings.                                                 *)
(***************************************************************************)
RECURSIVE XorBits(_, _, _)
XorBits(a, b, n) ==
    IF n = 0 THEN 0
    ELSE (((a % 2) + (b % 2)) % 2) + 2 * XorBits(a \div 2, b \div 2, n - 1)

\* u8 ^ u8
XorByte(a, b) == XorBits(a, b, 8)

\* [u8]::reverse
Reverse(s) == [i \in 1..Len(s) |-> s[Len(s) + 1 - i]]

\* the byte of s at 1-based position i, 0 past its end
ByteAt(s, i) == IF i <= Len(s) THEN s[i] ELSE 0

(***************************************************************************)
(* Cryptographic primitives. They are collaborators of channel.rs, not     *)
(* part of it; they are modelled by the properties the channel relies on:  *)
(*   - X25519 by Diffie-Hellman in Z_23^* with generator 5, expanded to    *)
(*     32 bytes (commutative in the two key pairs; the secret is no        *)
(*     palindrome);                                                        *)
(*   - SHA-256 by a 32-byte digest that is injective on messages of up to  *)
(*     15 bytes, any two digests differing in more than one bit;           *)
(*   - the AES-256-CTR key stream by a byte stream determined by the       *)
(*     secret and the checksum, XORed onto the data.                       *)
(***************************************************************************)
PublicKey(private_key) == (5 ^ private_key) % 23

compute_shared_secret(local_private_key_part, peer_public_key) ==
    LET s == (peer_public_key ^ local_private_key_part) % 23
    IN  [i \in 1..32 |-> (s * 9 + i) % 256]

Sha256(m) ==
    [i \in 1..32 |->
        IF i = 1 THEN (Len(m) * 37 + 99) % 256
        ELSE IF i <= 16 THEN (ByteAt(m, i - 1) * 5 + 13 * i) % 256
        ELSE (ByteAt(m, i - 16) * 11 + 7 * i + Len(m)) % 256]

\* the cipher of build_packet_cipher(secret, checksum): byte k of its key stream
KeyStream(secret, checksum, k) ==
    (secret[((k - 1) % 32) + 1] * 3 + checksum[((k * 7) % 32) + 1] * 5
        + secret[32] + checksum[1] + k) % 256

\* hash(ton::pub_::publickey::Aes { key }): SHA-256 of the boxed TL object,
\* the constructor id 0x2dbcadd4 (little endian) followed by the key
compute_channel_id(secret) == Sha256(<<212, 173, 188, 45>> \o secret)

\* ChannelSide::from_secret
from_secret(secret) == [id |-> compute_channel_id(secret), secret |-> secret]

(***************************************************************************)
(* AdnlChannel::new. Node ids are numbers, ordered as AdnlNodeIdShort is.  *)
(***************************************************************************)
AdnlChannel_new_unordered(local_id, peer_id, local_private_key_part, peer_public_key) ==
    LET shared_secret == compute_shared_secret(local_private_key_part, peer_public_key)
        reversed_secret == Reverse(shared_secret)
    IN  [channel_out |-> from_secret(shared_secret),
         channel_in |-> from_secret(reversed_secret),
         local_id |-> local_id,
         peer_id |-> peer_id]

AdnlChannel_new(local_id, peer_id, local_private_key_part, peer_public_key) ==
    LET shared_secret == compute_shared_secret(local_private_key_part, peer_public_key)
        reversed_secret == Reverse(shared_secret)
        secrets ==
            IF local_id < peer_id
            THEN [in_secret |-> shared_secret, out_secret |-> reversed_secret]
            ELSE IF local_id = peer_id
            THEN [in_secret |-> shared_secret, out_secret |-> shared_secret]
            ELSE [in_secret |-> reversed_secret, out_secret |-> shared_secret]
    IN  [channel_out |-> from_secret(secrets.in_secret),
         channel_in |-> from_secret(secrets.out_secret),
         local_id |-> local_id,
         peer_id |-> peer_id]

(***************************************************************************)
(* process_channel_data: the key stream of (secret, buffer[32..64]) applied*)
(* to buffer[64..]. The buffer has at least 64 bytes.                      *)
(***************************************************************************)
process_channel_data(buffer, secret) ==
    LET checksum == SubSeq(buffer, 33, 64)
    IN  [i \in 1..Len(buffer) |->
            IF i <= 64 THEN buffer[i]
            ELSE XorByte(buffer[i], KeyStream(secret, checksum, i - 64))]

(***************************************************************************)
(* AdnlChannel::encrypt: the new contents of the Vec<u8>.                  *)
(***************************************************************************)
encrypt_with_in_secret(channel, buffer) ==
    process_channel_data(channel.channel_out.id \o Sha256(buffer) \o buffer,
                         channel.channel_in.secret)

encrypt(channel, buffer) ==
    LET checksum == Sha256(buffer)
        framed == channel.channel_out.id \o checksum \o buffer
    IN  process_channel_data(framed, channel.channel_out.secret)

(***************************************************************************)
(* A PacketView is the bytes it still shows and the number of bytes        *)
(* remove_prefix has taken off its front.                                  *)
(***************************************************************************)
PacketView(bytes) == [bytes |-> bytes, removed |-> 0]

remove_prefix(v, n) ==
    [bytes |-> SubSeq(v.bytes, n + 1, Len(v.bytes)), removed |-> v.removed + n]

(***************************************************************************)
(* AdnlChannel::decrypt: the result and the view it leaves.                *)
(***************************************************************************)
decrypt_unchecked(channel, buffer) ==
    IF Len(buffer.bytes) < 64
    THEN [res |-> "ChannelMessageIsTooShort", view |-> buffer]
    ELSE [res |-> "Ok",
          view |-> remove_prefix(
              [buffer EXCEPT !.bytes = process_channel_data(@, channel.channel_in.secret)],
              64)]

decrypt(channel, buffer) ==
    IF Len(buffer.bytes) < 64
    THEN [res |-> "ChannelMessageIsTooShort", view |-> buffer]
    ELSE LET data == process_channel_data(buffer.bytes, channel.channel_in.secret)
             decrypted == [buffer EXCEPT !.bytes = data]
         IN  IF Sha256(SubSeq(data, 65, Len(data))) # SubSeq(data, 33, 64)
             THEN [res |-> "InvalidChannelMessageChecksum", view |-> decrypted]
             ELSE [res |-> "Ok", view |-> remove_prefix(decrypted, 64)]

(***************************************************************************)
(* The channel scenario: two peers build their channels from each other's  *)
(* public key, one encrypts a payload, the network may flip one bit of the *)
(* datagram or cut it short, the other decrypts.                           *)
(***************************************************************************)
Peers == {"a", "b"}
Other(p) == IF p = "a" THEN "b" ELSE "a"
NodeIds == 0..MaxNodeId
\* the channel key pair of a node
PrivateKeyOf(id) == id + 2

PayloadBytes == {0, 165}
RECURSIVE SeqsUpTo(_, _)
SeqsUpTo(S, n) ==
    IF n = 0 THEN {<<>>}
    ELSE LET shorter == SeqsUpTo(S, n - 1)
         IN  shorter \cup {Append(s, x) : s \in {t \in shorter : Len(t) = n - 1}, x \in S}
Payloads == SeqsUpTo(PayloadBytes, MaxPayloadLen)

\* byte b with bit k (0..7) flipped
FlipBit(b, k) == XorByte(b, 2 ^ k)

\* both peers call AdnlChannel::new
Handshake(ida, idb) ==
    /\ cpc = "start"
    /\ chans' = [p \in Peers |->
                    IF p = "a"
                    THEN AdnlChannel_new(ida, idb, PrivateKeyOf(ida), PublicKey(PrivateKeyOf(idb)))
                    ELSE AdnlChannel_new(idb, ida, PrivateKeyOf(idb), PublicKey(PrivateKeyOf(ida)))]
    /\ cpc' = "ready"
    /\ UNCHANGED <<sender, payload, wire, mutation, view, dres>>

\* peer p calls encrypt on a buffer holding data
Encrypt(p, data) ==
    /\ cpc = "ready"
    /\ sender' = p
    /\ payload' = data
    /\ wire' = encrypt(chans[p], data)
    /\ cpc' = "sent"
    /\ UNCHANGED <<chans, mutation, view, dres>>

\* the network flips bit k of byte pos (1-based) of the datagram
FlipOneBit(pos, k) ==
    /\ cpc = "sent"
    /\ mutation.kind = "none"
    /\ pos \in 1..Len(wire)
    /\ wire' = [wire EXCEPT ![pos] = FlipBit(@, k)]
    /\ mutation' = [kind |-> "flip", pos |-> pos]
    /\ UNCHANGED <<chans, cpc, sender, payload, view, dres>>

\* the network cuts the datagram to n bytes
Truncate(n) ==
    /\ cpc = "sent"
    /\ mutation.kind = "none"
    /\ n < Len(wire)
    /\ wire' = SubSeq(wire, 1, n)
    /\ mutation' = [kind |-> "cut", pos |-> n]
    /\ UNCHANGED <<chans, cpc, sender, payload, view, dres>>

\* the other peer calls decrypt on a view of the datagram
Decrypt ==
    /\ cpc = "sent"
    /\ LET r == decrypt(chans[Other(sender)], PacketView(wire))
       IN  /\ dres' = r.res
           /\ view' = r.view
    /\ cpc' = "received"
    /\ UNCHANGED <<chans, sender, payload, wire, mutation>>

(***************************************************************************)
(* The drop deadline. AtomicI32::compare_exchange(current, new) gives      *)
(* Ok(previous) when it stored new and Err(actual) when it did not.        *)
(***************************************************************************)
compare_exchange(value, current, new) ==
    IF value = current
    THEN [ok |-> TRUE, previous |-> value, stored |-> new]
    ELSE [ok |-> FALSE, previous |-> value, stored |-> value]

update_drop_timeout_returns_stored(value, now) ==
    LET r == compare_exchange(value, 0, now + CHANNEL_RESET_TIMEOUT)
    IN  [drop |-> r.stored, ret |-> r.stored, wrote |-> r.ok]

update_drop_timeout_overwrites(value, now) ==
    [drop |-> now + CHANNEL_RESET_TIMEOUT, ret |-> value, wrote |-> TRUE]

\* AdnlChannel::update_drop_timeout on a deadline holding value: what is stored,
\* what is returned (unwrap_or_else(|was| was): the Ok value or the Err value),
\* and whether the compare-and-swap wrote
update_drop_timeout(value, now) ==
    LET r == compare_exchange(value, 0, now + CHANNEL_RESET_TIMEOUT)
    IN  [drop |-> r.stored, ret |-> r.previous, wrote |-> r.ok]

\* AdnlChannel::reset_drop_timeout
reset_drop_timeout(value) == 0

Threads == 1..MaxThreads

(***************************************************************************)
(* The RLDP query engine.                                                  *)
(*                                                                         *)
(* Adaptive round-trip arithmetic (u64 milliseconds). start.elapsed() is   *)
(* the variable elapsed.                                                   *)
(***************************************************************************)
\* Option::unwrap_or
unwrap_or(option, default) == IF option = None THEN default ELSE option[1]

calc_timeout(r) == Max(unwrap_or(r, MAX_TIMEOUT), MIN_TIMEOUT)

update_roundtrip_forgets(r, elapsed_ms) == elapsed_ms

update_roundtrip_averages(r, elapsed_ms) ==
    IF r = 0 THEN elapsed_ms ELSE (r + elapsed_ms) \div 2

\* the value update_roundtrip leaves in *roundtrip; it returns calc_timeout of it
update_roundtrip(r, elapsed_ms) ==
    IF r = 0 THEN elapsed_ms ELSE r + (elapsed_ms \div 2)

is_timed_out(elapsed_ms, t, n) == elapsed_ms > t + (t * n) \div 100

stalled_roundtrip_uncapped(r) == r * 2

\* the roundtrip send_loop returns with ok = false when the part stalls
stalled_roundtrip(r) == Min(r * 2, MAX_TIMEOUT)

\* tokio::time::sleep(TRANSFER_LOOP_INTERVAL) with the stall timer at e: the task
\* wakes late, past the limit is_timed_out compares with, or, the first time, just
\* after the interval
WakeTimes(e, limit) ==
    (IF e = 0 THEN {TRANSFER_LOOP_INTERVAL} ELSE {})
        \cup {Max(e + TRANSFER_LOOP_INTERVAL, limit + 1)}

TimeoutLimit(t, n) == t + (t * n) \div 100

(***************************************************************************)
(* Transfer ids and the registry (DashMap<TransferId, RldpTransfer>).      *)
(***************************************************************************)
\* the id OutgoingTransfer::new draws at random
TransferIdOf(seed) == [i \in 1..32 |-> (seed * 41 + i * 7) % 256]

SameId(id) == id

\* for symbol in &mut incoming_transfer_id { *symbol ^= 0xFF }
ComplementId(id) == [i \in 1..Len(id) |-> XorByte(id[i], 255)]

\* DashMap::insert, DashMap::remove and a lookup
Insert(map, key, value) ==
    [k \in (DOMAIN map) \cup {key} |-> IF k = key THEN value ELSE map[k]]
Remove(map, key) == [k \in (DOMAIN map) \ {key} |-> map[k]]
Entry(map, key) == IF key \in DOMAIN map THEN map[key] ELSE "Absent"

(***************************************************************************)
(* The wire schema. A message is written as its constructor (1 rldp.answer,*)
(* 2 rldp.query, 3 a boxed type that is no rldp.Message), then its         *)
(* query_id, then its data. Anything else does not deserialize.            *)
(***************************************************************************)
Message(kind, id, data) == [kind |-> kind, query_id |-> id, data |-> data]

serialize(message) ==
    IF message.kind = "Answer" THEN <<1, message.query_id>> \o message.data
    ELSE IF message.kind = "Query" THEN <<2, message.query_id>> \o message.data
    ELSE IF message.kind = "Other" THEN <<3>>
    ELSE <<9>>

deserialize(bytes) ==
    IF Len(bytes) >= 2 /\ bytes[1] = 1
    THEN [ok |-> TRUE, value |-> Message("Answer", bytes[2], SubSeq(bytes, 3, Len(bytes)))]
    ELSE IF Len(bytes) >= 2 /\ bytes[1] = 2
    THEN [ok |-> TRUE, value |-> Message("Query", bytes[2], SubSeq(bytes, 3, Len(bytes)))]
    ELSE IF Len(bytes) >= 1 /\ bytes[1] = 3
    THEN [ok |-> TRUE, value |-> Message("Other", 0, <<>>)]
    ELSE [ok |-> FALSE, value |-> Message("Garbage", 0, <<>>)]

\* query ids: the query of the model draws 1, the peer answers for 1 or for 2
QueryIds == {1, 2}
PeerReplies ==
    {Message("Answer", id, <<7>>) : id \in QueryIds}
        \cup {Message("Query", 1, <<>>), Message("Other", 0, <<>>),
              Message("Garbage", 0, <<>>)}

(***************************************************************************)
(* The transfers. A message part carries the transfer's total size and the *)
(* symbols of one part; a part is two bytes of the message.                *)
(***************************************************************************)
PartsOf(bytes) == (Len(bytes) + 1) \div 2
PartData(bytes, k) == SubSeq(bytes, 2 * k + 1, Min(2 * k + 2, Len(bytes)))
MessagePart(bytes, k) ==
    [kind |-> "part", part |-> k, total_size |-> Len(bytes), data |-> PartData(bytes, k)]
MalformedPart == [kind |-> "malformed", part |-> 0, total_size |-> 0, data |-> <<>>]

\* IncomingTransfer::process_chunk: the transfer it leaves, whether it failed
\* and whether it produced a reply to send to the peer. The part awaited is
\* decoded from the symbols of a message part of that number; a part already
\* completed is acknowledged again and discarded.
process_chunk(transfer, message) ==
    IF message.kind = "malformed"
    THEN [transfer |-> transfer, err |-> TRUE, reply |-> FALSE]
    ELSE LET sized == [transfer EXCEPT !.total_size = Some(message.total_size)]
         IN  IF message.part = PartsOf(transfer.data)
             THEN [transfer |-> [sized EXCEPT !.data = @ \o message.data],
                   err |-> FALSE, reply |-> TRUE]
             ELSE [transfer |-> sized, err |-> FALSE,
                   reply |-> message.part < PartsOf(transfer.data)]

is_complete_always(transfer) == TRUE

\* receive_loop, lines 248-251: total_size is known and is the length of the data
is_complete(transfer) ==
    transfer.total_size # None /\ transfer.total_size[1] = Len(transfer.data)

\* OutgoingTransfer::start_next_part: None once every part is acknowledged
start_next_part(state, parts) == IF state.part >= parts THEN None ELSE Some(state.part)

\* OutgoingTransfer::is_finished_or_next_part: the peer's acknowledgement has
\* moved the shared part index past this part
is_finished_or_next_part(state, parts, part) == state.part > part

\* the locals of send_loop (part, transfer_wave, the for counter,
\* incoming_seqno) and its ok flag, before the loop is entered and after it is left
NoSend == [part |-> 0, wave |-> 0, sent |-> 0, incoming_seqno |-> 0, ok |-> FALSE]

(***************************************************************************)
(* RldpNode::query, lines 106-111: the registry after query_transfer_loop. *)
(***************************************************************************)
mark_done_incoming_only(map, is_err, outgoing_transfer_id, incoming_transfer_id) ==
    Insert(map, incoming_transfer_id, "Done")

mark_done_outgoing_only(map, is_err, outgoing_transfer_id, incoming_transfer_id) ==
    Insert(map, outgoing_transfer_id, "Done")

mark_done(map, is_err, outgoing_transfer_id, incoming_transfer_id) ==
    LET after_err == IF is_err THEN Insert(map, outgoing_transfer_id, "Done") ELSE map
    IN  Insert(after_err, incoming_transfer_id, "Done")

(***************************************************************************)
(* RldpNode::query, lines 122-137: the value returned for the result of    *)
(* query_transfer_loop.                                                    *)
(***************************************************************************)
Ok(data, r) == [ok |-> TRUE, data |-> data, roundtrip |-> r, err |-> "none"]
Err(e) == [ok |-> FALSE, data |-> None, roundtrip |-> 0, err |-> e]

match_answer_any_id(res, id) ==
    IF ~res.ok THEN res
    ELSE IF res.data = None THEN Ok(None, res.roundtrip)
    ELSE LET d == deserialize(res.data[1])
         IN  IF ~d.ok THEN Err("Deserialize")
             ELSE IF d.value.kind = "Answer" THEN Ok(Some(d.value.data), res.roundtrip)
             ELSE Err("UnexpectedAnswer")

match_answer(res, id) ==
    IF ~res.ok THEN res
    ELSE IF res.data = None THEN Ok(None, res.roundtrip)
    ELSE LET d == deserialize(res.data[1])
         IN  IF ~d.ok THEN Err("Deserialize")
             ELSE IF d.value.kind = "Answer" /\ d.value.query_id = id
             THEN Ok(Some(d.value.data), res.roundtrip)
             ELSE IF d.value.kind = "Answer" THEN Err("QueryIdMismatch")
             ELSE Err("UnexpectedAnswer")

(***************************************************************************)
(* The DHT peer iterator. Ids are strings of four bits; an entry of        *)
(* peer_ids is a pair <<affinity, peer id>>.                               *)
(***************************************************************************)
\* buckets::get_affinity: the number of leading bits in which the two pids agree
RECURSIVE get_affinity(_, _)
get_affinity(key, id) ==
    IF key = <<>> \/ id = <<>> \/ Head(key) # Head(id) THEN 0
    ELSE 1 + get_affinity(Tail(key), Tail(id))

\* PeersIter::next_known_peer from the cursor idx: the peer it returns, the
\* cursor it leaves, and the positions it skipped as bad
RECURSIVE next_known_peer(_, _, _, _)
next_known_peer(peers, bad, idx, skipped) ==
    IF idx >= Len(peers)
    THEN [peer |-> None, index |-> idx + 1, at |-> 0, skipped |-> skipped]
    ELSE IF peers[idx + 1] \in bad
    THEN next_known_peer(peers, bad, idx + 1, skipped \cup {idx + 1})
    ELSE [peer |-> Some(peers[idx + 1]), index |-> idx + 1, at |-> idx + 1,
          skipped |-> skipped]

\* the while loop of fill: the vector and the cursor it leaves, the positions
\* it took as candidates and those it skipped
RECURSIVE fill_scan(_, _, _, _, _, _, _, _)
fill_scan(key, peers, bad, pids, idx, batch_len, taken, skipped) ==
    LET n == next_known_peer(peers, bad, idx, skipped)
    IN  IF n.peer = None
        THEN [peer_ids |-> pids, index |-> n.index, taken |-> taken,
              skipped |-> n.skipped]
        ELSE LET affinity == get_affinity(key, n.peer[1])
                 add == \/ pids = <<>>
                        \/ batch_len = None
                        \/ pids[Len(pids)][1] <= affinity
                        \/ Len(pids) < batch_len[1]
             IN  fill_scan(key, peers, bad,
                           IF add THEN Append(pids, <<affinity, n.peer[1]>>) ELSE pids,
                           n.index, batch_len, taken \cup {n.at}, n.skipped)

IsAscending(pids) == \A i \in 1..(Len(pids) - 1) : pids[i][1] <= pids[i + 1][1]

unsorted(pids) == {pids}

\* sort_unstable_by_key: some ascending arrangement of the vector, the order of
\* entries of equal affinity being whatever the sort leaves
sort_unstable_by_key(pids) ==
    LET n == Len(pids)
        perms == {f \in [1..n -> 1..n] : \A i, j \in 1..n : f[i] = f[j] => i = j}
    IN  {t \in {[i \in 1..n |-> pids[f[i]]] : f \in perms} : IsAscending(t)}

\* the for loop of fill over the entries below the top one, at position i
RECURSIVE count_remaining(_, _, _, _, _)
count_remaining(pids, i, top_affinity, batch_len, remaining_count) ==
    IF i = 0 THEN remaining_count
    ELSE IF pids[i][1] >= top_affinity \/ remaining_count < batch_len
    THEN count_remaining(pids, i - 1, top_affinity, batch_len, remaining_count + 1)
    ELSE remaining_count

\* the removal of the prefix: drain(..len - remaining_count)
retain_batch(pids, batch_len) ==
    IF batch_len = None \/ pids = <<>> THEN pids
    ELSE LET remaining_count ==
                 count_remaining(pids, Len(pids) - 1, pids[Len(pids)][1], batch_len[1], 0)
         IN  SubSeq(pids, Len(pids) - remaining_count + 1, Len(pids))

\* PeersIter::fill: the results the call can leave
fill(key, peers, bad, pids, idx, batch_len) ==
    LET scan == fill_scan(key, peers, bad, pids, idx, batch_len, {}, {})
    IN  {[peer_ids |-> retain_batch(sorted, batch_len), index |-> scan.index,
          admitted |-> sorted, taken |-> scan.taken, skipped |-> scan.skipped]
            : sorted \in sort_unstable_by_key(scan.peer_ids)}

\* PeersIter::next: the peer returned and the vector left
next(pids) ==
    IF pids = <<>> THEN [ret |-> None, peer_ids |-> pids]
    ELSE [ret |-> Some(pids[Len(pids)][2]), peer_ids |-> SubSeq(pids, 1, Len(pids) - 1)]

\* no call was made on the iterator yet
NoCall == [op |-> "none", batch_len |-> None, admitted |-> <<>>, known |-> 0,
           ret |-> None, fills |-> 0]

(***************************************************************************)
(* The initial state: no channel built yet, the deadline unarmed.          *)
(***************************************************************************)
Init ==
    /\ chans = [p \in Peers |-> None]
    /\ cpc = "start"
    /\ sender = "none"
    /\ payload = <<>>
    /\ wire = <<>>
    /\ mutation = [kind |-> "none", pos |-> 0]
    /\ view = PacketView(<<>>)
    /\ dres = "none"
    /\ drop = 0
    /\ calls = [t \in Threads |-> [op |-> "none", now |-> 0, ret |-> 0]]
    /\ last = [kind |-> "none", now |-> 0, before |-> 0, thread |-> 0]
    /\ updatesSinceReset = 0
    /\ writesSinceReset = 0
    /\ qpc = "idle"
    /\ rpc = "unspawned"
    /\ cleanup = "none"
    /\ transfers = <<>>
    /\ peer_queries = [begun |-> 0, ended |-> 0]
    /\ query_id = 0
    /\ ids = [out |-> <<>>, in |-> <<>>]
    /\ arg_roundtrip = None
    /\ num_parts = 0
    /\ out_state = [part |-> 0, seqno_in |-> 0, reply_received |-> FALSE]
    /\ send = NoSend
    /\ roundtrip = 0
    /\ timeout = 0
    /\ elapsed = 0
    /\ emitted = FALSE
    /\ incoming = [total_size |-> None, data |-> <<>>, updates |-> 0]
    /\ queue = <<>>
    /\ rx_closed = FALSE
    /\ delivered = 0
    /\ barrier = None
    /\ updates = 0
    /\ loop_result = None
    /\ result = None
    /\ peer_reply = None
    /\ timed_out = [loop |-> "none", roundtrip |-> 0]
    /\ rtt = [r |-> 0, es |-> <<>>, rs |-> <<>>, ts |-> <<>>]
    /\ probe = [arg |-> None, ret |-> 0, called |-> FALSE]
    /\ key_id = <<0, 0, 0, 0>>
    /\ known_peers = <<>>
    /\ bad_peers = {}
    /\ peer_ids = <<>>
    /\ index = 0
    /\ examined = <<>>
    /\ popped = <<>>
    /\ filled = NoCall

\* thread t calls update_drop_timeout(now): one atomic operation
UpdateDropTimeout(t, now) ==
    /\ updatesSinceReset < MaxUpdates
    /\ LET r == update_drop_timeout(drop, now)
       IN  /\ drop' = r.drop
           /\ calls' = [calls EXCEPT ![t] = [op |-> "update", now |-> now, ret |-> r.ret]]
           /\ writesSinceReset' = writesSinceReset + (IF r.wrote THEN 1 ELSE 0)
    /\ last' = [kind |-> "update", now |-> now, before |-> drop, thread |-> t]
    /\ updatesSinceReset' = updatesSinceReset + 1

\* thread t calls reset_drop_timeout(): one atomic store
ResetDropTimeout(t) ==
    /\ drop' = reset_drop_timeout(drop)
    /\ calls' = [calls EXCEPT ![t] = [op |-> "reset", now |-> 0, ret |-> 0]]
    /\ last' = [kind |-> "reset", now |-> 0, before |-> drop, thread |-> t]
    /\ updatesSinceReset' = 0
    /\ writesSinceReset' = 0

(***************************************************************************)
(* RldpNode::query, one action per step between two points where another   *)
(* task can run. The locals of send_loop and query_transfer_loop (send,    *)
(* roundtrip, timeout, elapsed, updates) are 0 outside their scope.        *)
(***************************************************************************)
\* lines 51-66: the query is built and serialized, the peer handle found,
\* begin_query called
QueryBegin(seed, r, parts) ==
    /\ qpc = "idle"
    /\ query_id' = seed
    /\ ids' = [out |-> TransferIdOf(seed), in |-> ComplementId(TransferIdOf(seed))]
    /\ arg_roundtrip' = r
    /\ num_parts' = parts
    /\ peer_queries' = [peer_queries EXCEPT !.begun = @ + 1]
    /\ qpc' = "begun"
    /\ UNCHANGED <<rpc, cleanup, transfers, out_state, send, roundtrip, timeout,
                   elapsed, emitted, incoming, queue, rx_closed, delivered, barrier,
                   updates, loop_result, result, peer_reply, timed_out>>

\* line 60: serialize(&message)? fails, query returns before begin_query
QuerySerializeFails ==
    /\ qpc = "idle"
    /\ result' = Err("Serialize")
    /\ qpc' = "returned"
    /\ UNCHANGED <<rpc, cleanup, transfers, peer_queries, query_id, ids, arg_roundtrip,
                   num_parts, out_state, send, roundtrip, timeout, elapsed, emitted,
                   incoming, queue, rx_closed, delivered, barrier, updates,
                   loop_result, peer_reply, timed_out>>

\* lines 68-73: Outgoing(state) is registered under outgoing_transfer_id
RegisterOutgoing ==
    /\ qpc = "begun"
    /\ transfers' = Insert(transfers, ids.out, "Outgoing")
    /\ qpc' = "outgoing_registered"
    /\ UNCHANGED <<rpc, cleanup, peer_queries, query_id, ids, arg_roundtrip, num_parts,
                   out_state, send, roundtrip, timeout, elapsed, emitted, incoming,
                   queue, rx_closed, delivered, barrier, updates, loop_result, result,
                   peer_reply, timed_out>>

\* lines 75-100: Incoming(parts_tx) is registered under incoming_transfer_id
RegisterIncoming ==
    /\ qpc = "outgoing_registered"
    /\ transfers' = Insert(transfers, ids.in, "Incoming")
    /\ qpc' = "registered"
    /\ UNCHANGED <<rpc, cleanup, peer_queries, query_id, ids, arg_roundtrip, num_parts,
                   out_state, send, roundtrip, timeout, elapsed, emitted, incoming,
                   queue, rx_closed, delivered, barrier, updates, loop_result, result,
                   peer_reply, timed_out>>

\* lines 146-158 and 269-270: query_transfer_loop spawns the receive_loop task and
\* enters send_loop
SpawnReceiveLoop ==
    /\ qpc = "registered"
    /\ rpc' = "recv"
    /\ timeout' = calc_timeout(arg_roundtrip)
    /\ roundtrip' = unwrap_or(arg_roundtrip, 0)
    /\ qpc' = "next_part"
    /\ UNCHANGED <<cleanup, transfers, peer_queries, query_id, ids, arg_roundtrip,
                   num_parts, out_state, send, elapsed, emitted, incoming, queue,
                   rx_closed, delivered, barrier, updates, loop_result, result,
                   peer_reply, timed_out>>

\* lines 272-277: start_next_part; with no part left send_loop returns (true, roundtrip)
StartNextPart(wave) ==
    /\ qpc = "next_part"
    /\ LET started == start_next_part(out_state, num_parts)
       IN  IF started = None
           THEN /\ send' = [send EXCEPT !.ok = TRUE]
                /\ qpc' = "send_done"
                /\ UNCHANGED elapsed
           ELSE /\ send' = [part |-> started[1], wave |-> Min(wave, MAX_TRANSFER_WAVE),
                            sent |-> 0, incoming_seqno |-> 0, ok |-> FALSE]
                /\ elapsed' = 0
                /\ qpc' = "wave"
    /\ UNCHANGED <<rpc, cleanup, transfers, peer_queries, query_id, ids, arg_roundtrip,
                   num_parts, out_state, roundtrip, timeout, emitted, incoming, queue,
                   rx_closed, delivered, barrier, updates, loop_result, result,
                   peer_reply, timed_out>>

\* lines 279-289 and 306: one chunk of the wave is sent; if the part is finished
\* the part loop is left and the roundtrip updated
SendChunk ==
    /\ qpc = "wave"
    /\ emitted' = TRUE
    /\ IF is_finished_or_next_part(out_state, num_parts, send.part)
       THEN /\ roundtrip' = update_roundtrip(roundtrip, elapsed)
            /\ timeout' = calc_timeout(Some(roundtrip'))
            /\ qpc' = "next_part"
            /\ UNCHANGED send
       ELSE /\ send' = [send EXCEPT !.sent = @ + 1]
            /\ qpc' = IF send.sent + 1 >= send.wave THEN "sleep" ELSE "wave"
            /\ UNCHANGED <<roundtrip, timeout>>
    /\ UNCHANGED <<rpc, cleanup, transfers, peer_queries, query_id, ids, arg_roundtrip,
                   num_parts, out_state, elapsed, incoming, queue, rx_closed, delivered,
                   barrier, updates, loop_result, result, peer_reply, timed_out>>

\* lines 272, 283, 284, 286, 293: a call in send_loop fails and the error leaves
\* send_loop and query_transfer_loop through the ? operators
SendLoopFails ==
    /\ qpc \in {"next_part", "wave", "sleep"}
    /\ loop_result' = Err("Io")
    /\ qpc' = "loop_returned"
    /\ send' = NoSend
    /\ roundtrip' = 0
    /\ timeout' = 0
    /\ elapsed' = 0
    /\ UNCHANGED <<rpc, cleanup, transfers, peer_queries, query_id, ids, arg_roundtrip,
                   num_parts, out_state, emitted, incoming, queue, rx_closed, delivered,
                   barrier, updates, result, peer_reply, timed_out>>

\* lines 291-306: the sleep between two waves, waking at time now, and the checks
\* after it
SendAfterSleep(now) ==
    /\ qpc = "sleep"
    /\ now \in WakeTimes(elapsed, TimeoutLimit(timeout, send.incoming_seqno))
    /\ IF is_finished_or_next_part(out_state, num_parts, send.part)
       THEN /\ roundtrip' = update_roundtrip(roundtrip, now)
            /\ timeout' = calc_timeout(Some(roundtrip'))
            /\ elapsed' = now
            /\ qpc' = "next_part"
            /\ UNCHANGED <<send, timed_out>>
       ELSE IF out_state.seqno_in > send.incoming_seqno
       THEN /\ roundtrip' = update_roundtrip(roundtrip, now)
            /\ timeout' = calc_timeout(Some(roundtrip'))
            /\ send' = [send EXCEPT !.incoming_seqno = out_state.seqno_in, !.sent = 0]
            /\ elapsed' = 0
            /\ qpc' = "wave"
            /\ UNCHANGED timed_out
       ELSE IF is_timed_out(now, timeout, send.incoming_seqno)
       THEN /\ roundtrip' = stalled_roundtrip(roundtrip)
            /\ timed_out' = [loop |-> "send", roundtrip |-> roundtrip]
            /\ send' = [send EXCEPT !.ok = FALSE]
            /\ elapsed' = now
            /\ qpc' = "send_done"
            /\ UNCHANGED timeout
       ELSE /\ send' = [send EXCEPT !.sent = 0]
            /\ elapsed' = now
            /\ qpc' = "wave"
            /\ UNCHANGED <<roundtrip, timeout, timed_out>>
    /\ UNCHANGED <<rpc, cleanup, transfers, peer_queries, query_id, ids, arg_roundtrip,
                   num_parts, out_state, emitted, incoming, queue, rx_closed, delivered,
                   barrier, updates, loop_result, result, peer_reply>>

\* lines 160-171: send_loop has returned (ok, roundtrip)
AfterSendLoop ==
    /\ qpc = "send_done"
    /\ transfers' = Insert(transfers, ids.out, "Done")
    /\ send' = NoSend
    /\ elapsed' = 0
    /\ IF ~send.ok
       THEN /\ loop_result' = Ok(None, roundtrip)
            /\ qpc' = "loop_returned"
            /\ roundtrip' = 0
            /\ timeout' = 0
            /\ UNCHANGED updates
       ELSE /\ timeout' = calc_timeout(Some(roundtrip))
            /\ updates' = incoming.updates
            /\ qpc' = "wait"
            /\ UNCHANGED <<loop_result, roundtrip>>
    /\ UNCHANGED <<rpc, cleanup, peer_queries, query_id, ids, arg_roundtrip, num_parts,
                   out_state, emitted, incoming, queue, rx_closed, delivered, barrier,
                   result, peer_reply, timed_out>>

\* lines 172-188: one turn of the loop that waits for the answer, waking at time now
WaitForAnswer(now) ==
    /\ qpc = "wait"
    /\ now \in WakeTimes(elapsed, TimeoutLimit(timeout, updates))
    /\ IF incoming.updates <= updates /\ is_timed_out(now, timeout, updates)
       THEN \* break
            /\ loop_result' = Ok(None, roundtrip)
            /\ timed_out' = [loop |-> "wait", roundtrip |-> roundtrip]
            /\ qpc' = "loop_returned"
            /\ roundtrip' = 0
            /\ timeout' = 0
            /\ elapsed' = 0
            /\ updates' = 0
            /\ UNCHANGED barrier
       ELSE LET grew == incoming.updates > updates
                r1 == IF grew THEN update_roundtrip(roundtrip, now) ELSE roundtrip
                start == IF grew THEN 0 ELSE now
            IN  /\ UNCHANGED timed_out
                /\ IF barrier # None
                   THEN /\ barrier' = None
                        /\ loop_result' = Ok(Some(barrier[1].data),
                                             update_roundtrip(r1, start))
                        /\ qpc' = "loop_returned"
                        /\ roundtrip' = 0
                        /\ timeout' = 0
                        /\ elapsed' = 0
                        /\ updates' = 0
                   ELSE /\ roundtrip' = r1
                        /\ timeout' = IF grew THEN calc_timeout(Some(r1)) ELSE timeout
                        /\ updates' = IF grew THEN incoming.updates ELSE updates
                        /\ elapsed' = start
                        /\ UNCHANGED <<barrier, loop_result, qpc>>
    /\ UNCHANGED <<rpc, cleanup, transfers, peer_queries, query_id, ids, arg_roundtrip,
                   num_parts, out_state, send, emitted, incoming, queue, rx_closed,
                   delivered, result, peer_reply>>

\* lines 106-118: the registry entries are marked Done and the deferred cleanup
\* is spawned
MarkDone ==
    /\ qpc = "loop_returned"
    /\ transfers' = mark_done(transfers, ~loop_result.ok, ids.out, ids.in)
    /\ cleanup' = "sleeping"
    /\ qpc' = "cleanup_spawned"
    /\ UNCHANGED <<rpc, peer_queries, query_id, ids, arg_roundtrip, num_parts,
                   out_state, send, roundtrip, timeout, elapsed, emitted, incoming,
                   queue, rx_closed, delivered, barrier, updates, loop_result, result,
                   peer_reply, timed_out>>

\* lines 120-137: peer.end_query(), then the result is matched and query returns
QueryReturn ==
    /\ qpc = "cleanup_spawned"
    /\ peer_queries' = [peer_queries EXCEPT !.ended = @ + 1]
    /\ result' = match_answer(loop_result, query_id)
    /\ qpc' = "returned"
    /\ UNCHANGED <<rpc, cleanup, transfers, query_id, ids, arg_roundtrip, num_parts,
                   out_state, send, roundtrip, timeout, elapsed, emitted, incoming,
                   queue, rx_closed, delivered, barrier, updates, loop_result,
                   peer_reply, timed_out>>

\* lines 114-118: the cleanup task wakes 2 * MAX_TIMEOUT after it was spawned and
\* removes both entries. The steps of query after the spawn (end_query, the
\* decoding of the answer) take no time here, so query has returned by then,
\* unless its future was dropped.
CleanupRuns ==
    /\ cleanup = "sleeping"
    /\ qpc \in {"returned", "abandoned"}
    /\ transfers' = Remove(Remove(transfers, ids.out), ids.in)
    /\ cleanup' = "done"
    /\ UNCHANGED <<qpc, rpc, peer_queries, query_id, ids, arg_roundtrip, num_parts,
                   out_state, send, roundtrip, timeout, elapsed, emitted, incoming,
                   queue, rx_closed, delivered, barrier, updates, loop_result, result,
                   peer_reply, timed_out>>

\* the caller drops the future of query while it is suspended at an await after
\* the transfers were registered: the sleep of send_loop (line 291), the sleep
\* of the wait for the answer (172) or end_query (120). The code after the await
\* never runs and the locals are dropped; the spawned tasks and the registry
\* are not owned by the future and stay as they are.
Abandon ==
    /\ qpc \in {"sleep", "wait", "cleanup_spawned"}
    /\ qpc' = "abandoned"
    /\ send' = NoSend
    /\ roundtrip' = 0
    /\ timeout' = 0
    /\ elapsed' = 0
    /\ updates' = 0
    /\ UNCHANGED <<rpc, cleanup, transfers, peer_queries, query_id, ids, arg_roundtrip,
                   num_parts, out_state, emitted, incoming, queue, rx_closed, delivered,
                   barrier, loop_result, result, peer_reply, timed_out>>

(***************************************************************************)
(* receive_loop, the task spawned by query_transfer_loop.                  *)
(***************************************************************************)
\* the sender parts_tx lives in the registry entry Incoming(parts_tx)
SenderAlive == Entry(transfers, ids.in) = "Incoming"

\* lines 228-243: a message part is received and handed to process_chunk, and
\* the atomic updates counter is increased
ReceivePart ==
    /\ rpc = "recv"
    /\ queue # <<>>
    /\ LET r == process_chunk([total_size |-> incoming.total_size, data |-> incoming.data],
                              Head(queue))
           t == r.transfer
       IN  incoming' = [total_size |-> t.total_size, data |-> t.data,
                        updates |-> incoming.updates + 1]
    /\ rpc' = "set_reply"
    /\ queue' = Tail(queue)
    /\ UNCHANGED <<qpc, cleanup, transfers, peer_queries, query_id, ids, arg_roundtrip,
                   num_parts, out_state, send, roundtrip, timeout, elapsed, emitted,
                   rx_closed, delivered, barrier, updates, loop_result, result,
                   peer_reply, timed_out>>

\* lines 244-257: the atomic reply flag of the outgoing state is set, by the
\* first part only (the Option is taken), and the loop left if the transfer
\* is complete
SetReply ==
    /\ rpc = "set_reply"
    /\ out_state' = [out_state EXCEPT !.reply_received = TRUE]
    /\ rpc' = IF is_complete(incoming) THEN "closing" ELSE "recv"
    /\ UNCHANGED <<qpc, cleanup, transfers, peer_queries, query_id, ids, arg_roundtrip,
                   num_parts, send, roundtrip, timeout, elapsed, emitted, incoming,
                   queue, rx_closed, delivered, barrier, updates, loop_result, result,
                   peer_reply, timed_out>>

\* line 228: recv() gives None, the queue being empty and its sender dropped
ReceiveNone ==
    /\ rpc = "recv"
    /\ queue = <<>>
    /\ ~SenderAlive
    /\ rpc' = "closing"
    /\ UNCHANGED <<qpc, cleanup, transfers, peer_queries, query_id, ids, arg_roundtrip,
                   num_parts, out_state, send, roundtrip, timeout, elapsed, emitted,
                   incoming, queue, rx_closed, delivered, barrier, updates,
                   loop_result, result, peer_reply, timed_out>>

\* lines 259-260 and 156: the queue is closed and drained, and the transfer is
\* published in the barrier cell
CloseAndPublish ==
    /\ rpc = "closing"
    /\ rx_closed' = TRUE
    /\ queue' = <<>>
    /\ barrier' = Some([total_size |-> incoming.total_size, data |-> incoming.data])
    /\ rpc' = "finished"
    /\ UNCHANGED <<qpc, cleanup, transfers, peer_queries, query_id, ids, arg_roundtrip,
                   num_parts, out_state, send, roundtrip, timeout, elapsed, emitted,
                   incoming, delivered, updates, loop_result, result, peer_reply,
                   timed_out>>

(***************************************************************************)
(* The peer and the dispatcher that routes its messages through the        *)
(* registry.                                                               *)
(***************************************************************************)
\* a message part addressed to incoming_transfer_id is pushed to the queue of
\* its Incoming entry; the peer learns the id from the first chunk it is sent,
\* and answers with one message, chosen with its first part
PeerSendsPart(reply, k) ==
    /\ SenderAlive
    /\ emitted
    /\ ~rx_closed
    /\ delivered < MaxDelivered
    /\ peer_reply \in {None, Some(reply)}
    /\ k < PartsOf(serialize(reply))
    /\ peer_reply' = Some(reply)
    /\ queue' = Append(queue, MessagePart(serialize(reply), k))
    /\ delivered' = delivered + 1
    /\ UNCHANGED <<qpc, rpc, cleanup, transfers, peer_queries, query_id, ids,
                   arg_roundtrip, num_parts, out_state, send, roundtrip, timeout,
                   elapsed, emitted, incoming, rx_closed, barrier, updates,
                   loop_result, result, timed_out>>

\* a message part addressed to incoming_transfer_id that process_chunk rejects
PeerSendsMalformed ==
    /\ SenderAlive
    /\ emitted
    /\ ~rx_closed
    /\ delivered < MaxDelivered
    /\ queue' = Append(queue, MalformedPart)
    /\ delivered' = delivered + 1
    /\ UNCHANGED <<qpc, rpc, cleanup, transfers, peer_queries, query_id, ids,
                   arg_roundtrip, num_parts, out_state, send, roundtrip, timeout,
                   elapsed, emitted, incoming, rx_closed, barrier, updates,
                   loop_result, result, peer_reply, timed_out>>

\* a confirmation of the peer for outgoing_transfer_id raises seqno_in
PeerConfirms ==
    /\ Entry(transfers, ids.out) = "Outgoing"
    /\ emitted
    /\ delivered < MaxDelivered
    /\ delivered' = delivered + 1
    /\ out_state' = [out_state EXCEPT !.seqno_in = @ + 1]
    /\ UNCHANGED <<qpc, rpc, cleanup, transfers, peer_queries, query_id, ids,
                   arg_roundtrip, num_parts, send, roundtrip, timeout, elapsed, emitted,
                   incoming, queue, rx_closed, barrier, updates,
                   loop_result, result, peer_reply, timed_out>>

\* a completion of the peer for the current part of outgoing_transfer_id
PeerCompletes ==
    /\ Entry(transfers, ids.out) = "Outgoing"
    /\ emitted
    /\ out_state.part < num_parts
    /\ out_state' = [out_state EXCEPT !.part = @ + 1]
    /\ UNCHANGED <<qpc, rpc, cleanup, transfers, peer_queries, query_id, ids,
                   arg_roundtrip, num_parts, send, roundtrip, timeout, elapsed, emitted,
                   incoming, queue, rx_closed, delivered, barrier, updates,
                   loop_result, result, peer_reply, timed_out>>

Roundtrips == {None, Some(300)}

NextQuery ==
    \/ \E r \in Roundtrips, parts \in 1..MaxParts :
            QueryBegin(1, r, parts) /\ UNCHANGED <<chanVars, dropVars, rttVars, iterVars>>
    \/ QuerySerializeFails /\ UNCHANGED <<chanVars, dropVars, rttVars, iterVars>>
    \/ RegisterOutgoing /\ UNCHANGED <<chanVars, dropVars, rttVars, iterVars>>
    \/ RegisterIncoming /\ UNCHANGED <<chanVars, dropVars, rttVars, iterVars>>
    \/ SpawnReceiveLoop /\ UNCHANGED <<chanVars, dropVars, rttVars, iterVars>>
    \/ \E wave \in {1, 2} : StartNextPart(wave) /\ UNCHANGED <<chanVars, dropVars, rttVars, iterVars>>
    \/ SendChunk /\ UNCHANGED <<chanVars, dropVars, rttVars, iterVars>>
    \/ SendLoopFails /\ UNCHANGED <<chanVars, dropVars, rttVars, iterVars>>
    \/ \E now \in WakeTimes(elapsed, TimeoutLimit(timeout, send.incoming_seqno)) :
            SendAfterSleep(now) /\ UNCHANGED <<chanVars, dropVars, rttVars, iterVars>>
    \/ AfterSendLoop /\ UNCHANGED <<chanVars, dropVars, rttVars, iterVars>>
    \/ \E now \in WakeTimes(elapsed, TimeoutLimit(timeout, updates)) :
            WaitForAnswer(now) /\ UNCHANGED <<chanVars, dropVars, rttVars, iterVars>>
    \/ MarkDone /\ UNCHANGED <<chanVars, dropVars, rttVars, iterVars>>
    \/ QueryReturn /\ UNCHANGED <<chanVars, dropVars, rttVars, iterVars>>
    \/ CleanupRuns /\ UNCHANGED <<chanVars, dropVars, rttVars, iterVars>>
    \/ ReceivePart /\ UNCHANGED <<chanVars, dropVars, rttVars, iterVars>>
    \/ SetReply /\ UNCHANGED <<chanVars, dropVars, rttVars, iterVars>>
    \/ ReceiveNone /\ UNCHANGED <<chanVars, dropVars, rttVars, iterVars>>
    \/ CloseAndPublish /\ UNCHANGED <<chanVars, dropVars, rttVars, iterVars>>
    \/ \E reply \in PeerReplies, k \in 0..1 :
            PeerSendsPart(reply, k) /\ UNCHANGED <<chanVars, dropVars, rttVars, iterVars>>
    \/ PeerSendsMalformed /\ UNCHANGED <<chanVars, dropVars, rttVars, iterVars>>
    \/ PeerConfirms /\ UNCHANGED <<chanVars, dropVars, rttVars, iterVars>>
    \/ PeerCompletes /\ UNCHANGED <<chanVars, dropVars, rttVars, iterVars>>

SpecQuery == Init /\ [][NextQuery]_vars

\* the steps of the task that runs query, of the receive_loop task and of the
\* cleanup task
QuerySteps ==
    \/ \E r \in Roundtrips, parts \in 1..MaxParts : QueryBegin(1, r, parts)
    \/ QuerySerializeFails
    \/ RegisterOutgoing
    \/ RegisterIncoming
    \/ SpawnReceiveLoop
    \/ \E wave \in {1, 2} : StartNextPart(wave)
    \/ SendChunk
    \/ SendLoopFails
    \/ \E now \in WakeTimes(elapsed, TimeoutLimit(timeout, send.incoming_seqno)) :
            SendAfterSleep(now)
    \/ AfterSendLoop
    \/ \E now \in WakeTimes(elapsed, TimeoutLimit(timeout, updates)) : WaitForAnswer(now)
    \/ MarkDone
    \/ QueryReturn

ReceiveSteps == ReceivePart \/ SetReply \/ ReceiveNone \/ CloseAndPublish

\* the tokio runtime polls a task that can make a step: the task of query as
\* long as its future is held, the two spawned tasks always
Fairness ==
    /\ WF_vars(QuerySteps /\ UNCHANGED <<chanVars, dropVars, rttVars, iterVars>>)
    /\ WF_vars(ReceiveSteps /\ UNCHANGED <<chanVars, dropVars, rttVars, iterVars>>)
    /\ WF_vars(CleanupRuns /\ UNCHANGED <<chanVars, dropVars, rttVars, iterVars>>)

\* query with a caller that may drop its future
NextAbandon ==
    \/ NextQuery
    \/ Abandon /\ UNCHANGED <<chanVars, dropVars, rttVars, iterVars>>

SpecAbandon == Init /\ [][NextAbandon]_vars /\ Fairness

(***************************************************************************)
(* The round-trip arithmetic on its own: update_roundtrip called on a cell *)
(* that starts at 0, calc_timeout called on any argument.                  *)
(***************************************************************************)
\* start.elapsed().as_millis() at a call of update_roundtrip
ElapsedTimes == {0, 1, 3, 200, 400, 2000}

\* the arguments of calc_timeout
TimeoutArgs == {None} \cup {Some(r) : r \in {0, 1, 499, 500, 501, 9999, 10000, 10001}}

\* update_roundtrip(&mut roundtrip, &start) with start.elapsed() = e
UpdateRoundtrip(e) ==
    /\ Len(rtt.es) < MaxRttCalls
    /\ LET r == update_roundtrip(rtt.r, e)
       IN  rtt' = [r |-> r, es |-> Append(rtt.es, e), rs |-> Append(rtt.rs, r),
                   ts |-> Append(rtt.ts, calc_timeout(Some(r)))]
    /\ UNCHANGED probe

\* a new roundtrip cell, as send_loop makes from the argument None
NewRoundtrip ==
    /\ rtt.es # <<>>
    /\ rtt' = [r |-> 0, es |-> <<>>, rs |-> <<>>, ts |-> <<>>]
    /\ UNCHANGED probe

\* calc_timeout(arg)
CalcTimeout(arg) ==
    /\ probe' = [arg |-> arg, ret |-> calc_timeout(arg), called |-> TRUE]
    /\ UNCHANGED rtt

NextRtt ==
    \/ \E e \in ElapsedTimes : UpdateRoundtrip(e) /\ UNCHANGED <<chanVars, dropVars, queryVars, iterVars>>
    \/ NewRoundtrip /\ UNCHANGED <<chanVars, dropVars, queryVars, iterVars>>
    \/ \E arg \in TimeoutArgs : CalcTimeout(arg) /\ UNCHANGED <<chanVars, dropVars, queryVars, iterVars>>

SpecRtt == Init /\ [][NextRtt]_vars

(***************************************************************************)
(* The peer iterator and the DHT node it walks.                            *)
(***************************************************************************)
\* the peers of the scenario of the spec, of affinity 0, 1, 2, 3 to the key 0,
\* and one more of affinity 2
PeerIds == {<<1, 0, 0, 0>>, <<0, 1, 0, 0>>, <<0, 0, 1, 0>>, <<0, 0, 0, 1>>,
            <<0, 0, 1, 1>>}

KeyIds == {<<0, 0, 0, 0>>, <<0, 0, 1, 1>>}

BatchLens == {None} \cup {Some(b) : b \in 0..MaxBatchLen}

\* PeersIter::with_key_id
WithKeyId(key) ==
    /\ filled.op = "none"
    /\ known_peers = <<>>
    /\ key # key_id
    /\ key_id' = key
    /\ peer_ids' = <<>>
    /\ index' = 0
    /\ UNCHANGED <<known_peers, bad_peers, examined, popped, filled>>

\* the DHT node learns a peer
AddKnownPeer(id) ==
    /\ Len(known_peers) < MaxKnownPeers
    /\ \A i \in 1..Len(known_peers) : known_peers[i] # id
    /\ known_peers' = Append(known_peers, id)
    /\ examined' = Append(examined, [taken |-> 0, skipped |-> 0])
    /\ UNCHANGED <<key_id, bad_peers, peer_ids, index, popped, filled>>

\* the DHT node flags as bad a known peer that the cursor has not passed
MarkBadPeer(id) ==
    /\ \E i \in (index + 1)..Len(known_peers) : known_peers[i] = id
    /\ id \notin bad_peers
    /\ Cardinality(bad_peers) < MaxBadPeers
    /\ bad_peers' = bad_peers \cup {id}
    /\ UNCHANGED <<key_id, known_peers, peer_ids, index, examined, popped, filled>>

\* PeersIter::fill(dht, batch_len)
Fill(batch_len) ==
    /\ filled.fills < MaxFills
    /\ \E f \in fill(key_id, known_peers, bad_peers, peer_ids, index, batch_len) :
        /\ peer_ids' = f.peer_ids
        /\ index' = f.index
        /\ examined' = [i \in 1..Len(examined) |->
                           [taken |-> examined[i].taken + (IF i \in f.taken THEN 1 ELSE 0),
                            skipped |-> examined[i].skipped
                                            + (IF i \in f.skipped THEN 1 ELSE 0)]]
        /\ filled' = [op |-> "fill", batch_len |-> batch_len, admitted |-> f.admitted,
                      known |-> Len(known_peers), ret |-> None,
                      fills |-> filled.fills + 1]
    /\ popped' = <<>>
    /\ UNCHANGED <<key_id, known_peers, bad_peers>>

\* PeersIter::next()
NextPeer ==
    /\ LET n == next(peer_ids)
       IN  /\ peer_ids' = n.peer_ids
           /\ filled' = [op |-> "next", batch_len |-> None, admitted |-> <<>>,
                         known |-> 0, ret |-> n.ret, fills |-> filled.fills]
           /\ popped' = IF n.ret = None THEN popped
                        ELSE Append(popped, peer_ids[Len(peer_ids)][1])
    /\ UNCHANGED <<key_id, known_peers, bad_peers, index, examined>>

NextPeers ==
    \/ \E key \in KeyIds : WithKeyId(key) /\ UNCHANGED <<chanVars, dropVars, queryVars, rttVars>>
    \/ \E id \in PeerIds : AddKnownPeer(id) /\ UNCHANGED <<chanVars, dropVars, queryVars, rttVars>>
    \/ \E id \in PeerIds : MarkBadPeer(id) /\ UNCHANGED <<chanVars, dropVars, queryVars, rttVars>>
    \/ \E batch_len \in BatchLens : Fill(batch_len) /\ UNCHANGED <<chanVars, dropVars, queryVars, rttVars>>
    \/ NextPeer /\ UNCHANGED <<chanVars, dropVars, queryVars, rttVars>>

SpecPeers == Init /\ [][NextPeers]_vars

NextChannel ==
    \/ \E ida, idb \in NodeIds : Handshake(ida, idb) /\ UNCHANGED <<dropVars, queryVars, rttVars, iterVars>>
    \/ \E p \in Peers, data \in Payloads : Encrypt(p, data) /\ UNCHANGED <<dropVars, queryVars, rttVars, iterVars>>
    \/ \E pos \in 1..(64 + MaxPayloadLen), k \in 0..7 : FlipOneBit(pos, k) /\ UNCHANGED <<dropVars, queryVars, rttVars, iterVars>>
    \/ \E n \in {0, 63} : Truncate(n) /\ UNCHANGED <<dropVars, queryVars, rttVars, iterVars>>
    \/ Decrypt /\ UNCHANGED <<dropVars, queryVars, rttVars, iterVars>>

SpecChannel == Init /\ [][NextChannel]_vars

NextDrop ==
    \/ \E t \in Threads, now \in 0..MaxNow : UpdateDropTimeout(t, now) /\ UNCHANGED <<chanVars, queryVars, rttVars, iterVars>>
    \/ \E t \in Threads : ResetDropTimeout(t) /\ UNCHANGED <<chanVars, queryVars, rttVars, iterVars>>

SpecDrop == Init /\ [][NextDrop]_vars

(***************************************************************************)
(* Claims about the channel.                                               *)
(***************************************************************************)
\* the shared secret S that the channel at peer p was built from
SharedSecretOf(p) ==
    compute_shared_secret(PrivateKeyOf(chans[p].local_id),
                          PublicKey(PrivateKeyOf(chans[p].peer_id)))

\* C1: channel symmetry. Once both peers have built their channels for distinct
\* node ids, the outbound side (secret and id) of each equals the inbound side
\* of the other.
C1_ChannelSymmetry ==
    (cpc # "start" /\ chans["a"].local_id # chans["a"].peer_id) =>
        \A p \in Peers :
            /\ chans[p].channel_out.secret = chans[Other(p)].channel_in.secret
            /\ chans[p].channel_out.id = chans[Other(p)].channel_in.id
            /\ chans[p].channel_in = chans[Other(p)].channel_out

C1_Witness ==
    /\ cpc = "ready"
    /\ chans["a"].local_id < chans["a"].peer_id
    /\ chans["a"].channel_out.secret # chans["a"].channel_in.secret
    /\ chans["a"].channel_out.id = chans["b"].channel_in.id

\* C2: direction of the derivation, as claimed. With S the shared secret and S'
\* its reverse: local_id < peer_id gives out = S', in = S; local_id > peer_id
\* gives out = S, in = S'; equal ids give S on both sides.
C2_Direction ==
    cpc # "start" =>
        \A p \in Peers :
            LET c == chans[p]
                S == SharedSecretOf(p)
            IN  /\ c.local_id < c.peer_id =>
                    c.channel_out.secret = Reverse(S) /\ c.channel_in.secret = S
                /\ c.local_id > c.peer_id =>
                    c.channel_out.secret = S /\ c.channel_in.secret = Reverse(S)
                /\ c.local_id = c.peer_id =>
                    c.channel_out.secret = S /\ c.channel_in.secret = S

\* C3: round trip. An untouched datagram carries the sender's channel_out id in
\* bytes [0..32) and SHA-256 of the payload in bytes [32..64), and decrypt on
\* the other peer's channel succeeds and leaves exactly the payload, the
\* 64-byte header removed.
C3_RoundTrip ==
    /\ (cpc = "sent" /\ mutation.kind = "none") =>
        /\ Len(wire) = Len(payload) + 64
        /\ SubSeq(wire, 1, 32) = chans[sender].channel_out.id
        /\ SubSeq(wire, 33, 64) = Sha256(payload)
    /\ (cpc = "received" /\ mutation.kind = "none") =>
        /\ dres = "Ok"
        /\ view.bytes = payload
        /\ view.removed = 64

C3_Witness ==
    /\ cpc = "received"
    /\ mutation.kind = "none"
    /\ chans[sender].local_id # chans[sender].peer_id
    /\ payload # <<>>
    /\ SubSeq(wire, 65, Len(wire)) # payload
    /\ dres = "Ok"
    /\ view.bytes = payload

\* C4 as claimed: a single-bit flip anywhere in the datagram, the channel-id
\* bytes included, makes decrypt fail with InvalidChecksum without advancing
\* the view.
C4_AnyFlipDetected ==
    (cpc = "received" /\ mutation.kind = "flip") =>
        /\ dres = "InvalidChannelMessageChecksum"
        /\ view.removed = 0

\* C4 amended: a single-bit flip in the checksum bytes [32..64) or in the
\* ciphertext [64..) makes decrypt fail with InvalidChecksum without advancing
\* the view; a flip in the channel-id bytes [0..32), which decrypt never
\* reads, is not detected: decrypt succeeds and leaves the payload.
C4_TamperDetection ==
    (cpc = "received" /\ mutation.kind = "flip") =>
        IF mutation.pos > 32
        THEN /\ dres = "InvalidChannelMessageChecksum"
             /\ view.removed = 0
        ELSE /\ dres = "Ok"
             /\ view.bytes = payload
             /\ view.removed = 64

C4_Witness ==
    /\ cpc = "received"
    /\ mutation.kind = "flip"
    /\ mutation.pos > 64
    /\ dres = "InvalidChannelMessageChecksum"
    /\ view.removed = 0

(***************************************************************************)
(* Claims about the drop deadline.                                         *)
(***************************************************************************)
\* C5 as claimed: update_drop_timeout returns the deadline that is stored
\* after the call (now + 30 when its compare-and-swap wins).
C5_ReturnsStoredDeadline ==
    last.kind = "update" => calls[last.thread].ret = drop

\* C5 amended: update_drop_timeout returns the deadline that was stored before
\* the call: 0 when its compare-and-swap wins (the deadline becomes now + 30),
\* the existing non-zero deadline, which stays stored, when it loses.
C5_ReturnsPreviousDeadline ==
    last.kind = "update" =>
        /\ calls[last.thread].ret = last.before
        /\ last.before = 0 =>
            calls[last.thread].ret = 0 /\ drop = last.now + CHANNEL_RESET_TIMEOUT
        /\ last.before # 0 => calls[last.thread].ret = drop

\* the first update after a reset: its compare-and-swap wins and it returns 0
C5_Witness ==
    /\ last.kind = "update"
    /\ last.before = 0
    /\ drop = last.now + CHANNEL_RESET_TIMEOUT
    /\ calls[last.thread].ret = 0
    /\ \E t \in Threads : calls[t].op = "reset"

\* C6: the deadline starts at 0; an update that finds 0 stores now + 30; an
\* update that finds a non-zero deadline leaves it; a reset stores 0; of the
\* updates since the last reset exactly one wrote.
C6_DeadlineState ==
    /\ last.kind = "none" => drop = 0
    /\ (last.kind = "update" /\ last.before = 0) =>
        drop = last.now + CHANNEL_RESET_TIMEOUT
    /\ (last.kind = "update" /\ last.before # 0) => drop = last.before
    /\ last.kind = "reset" => drop = 0
    /\ updatesSinceReset > 0 => writesSinceReset = 1
    /\ updatesSinceReset = 0 => writesSinceReset = 0

C6_Witness ==
    /\ last.kind = "update"
    /\ last.before # 0
    /\ last.now + CHANNEL_RESET_TIMEOUT # last.before
    /\ drop = last.before
    /\ updatesSinceReset = MaxUpdates
    /\ writesSinceReset = 1

(***************************************************************************)
(* Claims about RldpNode::query.                                           *)
(***************************************************************************)
\* the call of query has called begin_query and has returned
Finished == qpc = "returned" /\ peer_queries.begun = 1

\* C7: query finalization. When a call of query that called begin_query
\* returns, whatever its outcome, the deferred cleanup of both ids has been
\* spawned, end_query has been called exactly once (and not before the
\* return), and until the cleanup runs the entries of T_out and T_in are both
\* Done; the cleanup then removes both.
C7_QueryFinalization ==
    /\ qpc # "returned" => peer_queries.ended = 0
    /\ Finished =>
        /\ peer_queries.ended = 1
        /\ cleanup \in {"sleeping", "done"}
        /\ cleanup = "sleeping" =>
            /\ Entry(transfers, ids.out) = "Done"
            /\ Entry(transfers, ids.in) = "Done"
        /\ cleanup = "done" =>
            /\ Entry(transfers, ids.out) = "Absent"
            /\ Entry(transfers, ids.in) = "Absent"

\* query returns the I/O error of send_loop: T_out was still Outgoing when
\* query_transfer_loop returned, and is Done at the return
C7_Witness ==
    /\ Finished
    /\ result = Err("Io")
    /\ cleanup = "sleeping"
    /\ Entry(transfers, ids.out) = "Done"
    /\ Entry(transfers, ids.in) = "Done"
    /\ peer_queries.ended = 1

\* the reassembled reply that query_transfer_loop returned, deserialized
Reassembled == deserialize(loop_result.data[1])

\* C8: answer correlation. query returns Ok(Some(data)) only when the
\* reassembled reply deserializes to an Answer whose query_id is the one sent,
\* and data is that Answer's data; an Answer with another query_id gives
\* QueryIdMismatch; a message of any other type gives UnexpectedAnswer.
C8_AnswerCorrelation ==
    Finished =>
        /\ (result.ok /\ result.data # None) =>
            /\ loop_result.ok /\ loop_result.data # None
            /\ Reassembled.ok
            /\ Reassembled.value.kind = "Answer"
            /\ Reassembled.value.query_id = query_id
            /\ result.data = Some(Reassembled.value.data)
        /\ (loop_result.ok /\ loop_result.data # None /\ Reassembled.ok) =>
            /\ (Reassembled.value.kind = "Answer"
                    /\ Reassembled.value.query_id # query_id) =>
                result = Err("QueryIdMismatch")
            /\ Reassembled.value.kind # "Answer" => result = Err("UnexpectedAnswer")

\* the peer answered with an Answer of another query_id
C8_Witness ==
    /\ Finished
    /\ peer_reply # None
    /\ peer_reply[1].kind = "Answer"
    /\ peer_reply[1].query_id # query_id
    /\ loop_result.ok /\ loop_result.data # None
    /\ Reassembled.value = peer_reply[1]
    /\ result = Err("QueryIdMismatch")

\* C9 as claimed: a query that ended because a transfer timed out, in send_loop
\* or in the wait for the answer, returns Ok((None, r)) with r the roundtrip at
\* the time-out doubled and capped at MAX_TIMEOUT.
C9_TimeoutDoubles ==
    (Finished /\ timed_out.loop # "none") =>
        result = Ok(None, Min(timed_out.roundtrip * 2, MAX_TIMEOUT))

\* C9 amended: a time-out is reported as Ok((None, r)), never as an error. After
\* a stall of send_loop r is the roundtrip doubled and capped at MAX_TIMEOUT;
\* after a time-out of the wait for the answer r is the roundtrip unchanged.
C9_TimeoutResult ==
    (Finished /\ timed_out.loop # "none") =>
        /\ result.ok
        /\ result.data = None
        /\ timed_out.loop = "send" =>
            /\ result.roundtrip = Min(timed_out.roundtrip * 2, MAX_TIMEOUT)
            /\ result.roundtrip <= MAX_TIMEOUT
        /\ timed_out.loop = "wait" => result.roundtrip = timed_out.roundtrip

\* the wait for the answer timed out with a non-zero roundtrip, returned as it is
C9_Witness ==
    /\ Finished
    /\ timed_out.loop = "wait"
    /\ timed_out.roundtrip > 0
    /\ result = Ok(None, timed_out.roundtrip)

\* the happy path: the peer acknowledged every part of the query and answered
\* with an Answer carrying the sent query_id, and query returned its data
HappyPath ==
    /\ Finished
    /\ out_state.part >= num_parts
    /\ peer_reply # None
    /\ peer_reply[1].kind = "Answer"
    /\ peer_reply[1].query_id = query_id
    /\ result.ok
    /\ result.data = Some(peer_reply[1].data)

Sending == qpc \in {"next_part", "wave", "sleep", "send_done"}
Waiting == qpc = "wait"

\* C16: id pairing and registration order. The incoming id is the bitwise
\* complement of the outgoing id (each byte is 255 minus the byte); once the receive loop is spawned or a chunk
\* was emitted both ids have been registered; while the query is sending its
\* outgoing id is Outgoing, and while it is sending or waiting its incoming id
\* is Incoming, so that a part for it finds the queue.
C16_IdPairing ==
    /\ qpc \notin {"idle"} /\ peer_queries.begun = 1 =>
        /\ Len(ids.in) = Len(ids.out)
        /\ \A i \in 1..Len(ids.out) : ids.in[i] = 255 - ids.out[i]
    /\ (rpc # "unspawned" \/ emitted) =>
        /\ Entry(transfers, ids.out) # "Absent" \/ cleanup = "done"
        /\ Entry(transfers, ids.in) # "Absent" \/ cleanup = "done"
    /\ (Sending /\ qpc # "send_done") => Entry(transfers, ids.out) = "Outgoing"
    /\ (Sending \/ Waiting) => Entry(transfers, ids.in) = "Incoming"

\* a part of the answer is in the queue of the incoming id while the query waits
C16_Witness ==
    /\ Waiting
    /\ Entry(transfers, ids.in) = "Incoming"
    /\ Entry(transfers, ids.out) = "Done"
    /\ queue # <<>>
    /\ XorByte(ids.out[1], ids.in[1]) = 255

\* C17: a message part that process_chunk rejects does not increase the
\* updates counter of the incoming transfer.
C17_RejectedNotCounted ==
    [][(/\ rpc = "recv"
        /\ queue # <<>>
        /\ queue' = Tail(queue)
        /\ process_chunk([total_size |-> incoming.total_size, data |-> incoming.data],
                         Head(queue)).err)
            => incoming'.updates = incoming.updates]_vars

\* the caller dropped the future of query
Abandoned == qpc = "abandoned"

\* C14: cancellation by abandonment. If the caller drops the query future at a
\* suspension point after the transfers were registered, then eventually the
\* receive loop has terminated and both registry entries are Done or removed,
\* and eventually both are removed: none stays Outgoing or Incoming forever.
C14_AbandonCleansUp ==
    /\ Abandoned ~> (/\ rpc = "finished"
                     /\ Entry(transfers, ids.out) \in {"Done", "Absent"}
                     /\ Entry(transfers, ids.in) \in {"Done", "Absent"})
    /\ Abandoned ~> (/\ Entry(transfers, ids.out) = "Absent"
                     /\ Entry(transfers, ids.in) = "Absent")

\* the steps an entry of the registry may take
LifecycleStep(before, after) ==
    \/ after = before
    \/ before = "Absent" /\ after \in {"Outgoing", "Incoming"}
    \/ before \in {"Outgoing", "Incoming"} /\ after = "Done"
    \/ before = "Done" /\ after = "Absent"

\* C15: registry lifecycle. Every transfer id registered by query goes from
\* absent to active (Outgoing or Incoming), then to Done, then to absent, in
\* that order: an entry is never removed while active and never returns from
\* Done to active. When query has returned both entries are Done or removed,
\* and eventually the deferred sweep has removed both.
C15_RegistryLifecycle ==
    /\ [][\A id \in (DOMAIN transfers) \cup (DOMAIN transfers') :
            LifecycleStep(Entry(transfers, id), Entry(transfers', id))]_vars
    /\ [](Finished => /\ Entry(transfers, ids.out) \in {"Done", "Absent"}
                      /\ Entry(transfers, ids.in) \in {"Done", "Absent"})
    /\ Finished ~> (/\ cleanup = "done"
                    /\ Entry(transfers, ids.out) = "Absent"
                    /\ Entry(transfers, ids.in) = "Absent")

\* query returned the answer and the sweep has removed both entries
C15_Witness ==
    /\ Finished
    /\ result.ok /\ result.data # None
    /\ cleanup = "done"
    /\ DOMAIN transfers = {}
    /\ rpc = "finished"

\* C18: ordering of reply_received and updates. In every interleaving of the
\* receive loop with an observer, whenever the updates counter of the incoming
\* transfer is above 0 the reply_received flag of the outgoing state is
\* already set.
C18_ReplyBeforeUpdates == incoming.updates > 0 => out_state.reply_received

\* the query has entered query_transfer_loop and has not returned from it
Polling == Sending \/ Waiting

\* C20: no truncated reply. While the query is in query_transfer_loop the
\* receive loop publishes to the barrier only a complete transfer, its
\* total_size announced and equal to the length of its data, and the queue is
\* not closed before; the reply query_transfer_loop returns is the whole
\* message the peer sent.
C20_NoTruncatedReply ==
    /\ Polling =>
        /\ barrier # None => is_complete(barrier[1])
        /\ rpc \in {"closing", "finished"} => is_complete(incoming)
        /\ rx_closed => barrier # None
    /\ (loop_result # None /\ loop_result.ok /\ loop_result.data # None) =>
        /\ peer_reply # None
        /\ loop_result.data[1] = serialize(peer_reply[1])

\* a reply of two parts was received in two updates, published by the receive
\* loop and returned whole
C20_Witness ==
    /\ loop_result # None /\ loop_result.ok
    /\ loop_result.data # None
    /\ Len(loop_result.data[1]) = 3
    /\ PartsOf(loop_result.data[1]) = 2
    /\ rpc = "finished"
    /\ incoming.updates = 2

(***************************************************************************)
(* Claims about the round-trip arithmetic.                                 *)
(***************************************************************************)
\* what C11 says of calc_timeout, and of the value each update_roundtrip returns
RttTimeouts ==
    /\ probe.called =>
        /\ probe.ret >= MIN_TIMEOUT
        /\ probe.arg = None => probe.ret = MAX_TIMEOUT
    /\ \A i \in 1..Len(rtt.es) :
        /\ rtt.ts[i] = calc_timeout(Some(rtt.rs[i]))
        /\ rtt.ts[i] >= MIN_TIMEOUT

\* the example of the spec: elapsed 200, 400, 2000 from r = 0
RttExample ==
    rtt.es = <<200, 400, 2000>> =>
        rtt.rs = <<200, 400, 1400>> /\ rtt.ts = <<500, 500, 1400>>

\* C11 as claimed: calc_timeout is at least MIN_TIMEOUT and is MAX_TIMEOUT for
\* None; from r = 0 the first update_roundtrip with elapsed e, for any e >= 0,
\* sets r = e and the second, with elapsed e', sets r = e + e'/2.
C11_SecondUpdateAddsHalf ==
    /\ RttTimeouts
    /\ RttExample
    /\ Len(rtt.es) >= 1 => rtt.rs[1] = rtt.es[1]
    /\ Len(rtt.es) >= 2 => rtt.rs[2] = rtt.es[1] + rtt.es[2] \div 2

\* C11 amended: as claimed for a first elapsed time e > 0; after a first
\* elapsed time of 0 the roundtrip is still 0, and the second update sets
\* r = e', not e'/2.
C11_RttArithmetic ==
    /\ RttTimeouts
    /\ RttExample
    /\ Len(rtt.es) >= 1 => rtt.rs[1] = rtt.es[1]
    /\ (Len(rtt.es) >= 2 /\ rtt.es[1] > 0) =>
        rtt.rs[2] = rtt.es[1] + rtt.es[2] \div 2
    /\ (Len(rtt.es) >= 2 /\ rtt.es[1] = 0) => rtt.rs[2] = rtt.es[2]

\* a first elapsed time of 0 ms, then one of 3 ms: the roundtrip is 3, not 1
C11_Witness ==
    /\ rtt.es = <<0, 3>>
    /\ rtt.rs = <<0, 3>>
    /\ rtt.ts = <<MIN_TIMEOUT, MIN_TIMEOUT>>
    /\ probe.called

(***************************************************************************)
(* Claims about the peer iterator.                                         *)
(***************************************************************************)
\* the affinities of the entries of a vector of (affinity, peer id) pairs
Affinities(pids) == {pids[i][1] : i \in 1..Len(pids)}

\* C12: peer iterator ordering. The affinities of the peers that next()
\* returned since the last fill are non-increasing, and each peer returned had
\* the highest affinity of those held: none that is still held has a higher
\* one. Every entry carries the affinity of its peer to the key.
C12_PeerOrdering ==
    /\ \A i, j \in 1..Len(popped) : i < j => popped[i] >= popped[j]
    /\ (filled.op = "next" /\ filled.ret # None) =>
        /\ popped # <<>>
        /\ popped[Len(popped)] = get_affinity(key_id, filled.ret[1])
        /\ \A a \in Affinities(peer_ids) : a <= popped[Len(popped)]
    /\ \A i \in 1..Len(peer_ids) : peer_ids[i][1] = get_affinity(key_id, peer_ids[i][2])

\* after a second fill, next() returned two peers, the second of lower affinity,
\* and a peer is still held
C12_Witness ==
    /\ filled.op = "next"
    /\ filled.fills = 2
    /\ Len(popped) = 2
    /\ popped[1] > popped[2]
    /\ peer_ids # <<>>

\* the entries of a vector of (affinity, peer id) pairs
Entries(pids) == {pids[i] : i \in 1..Len(pids)}

\* the highest affinity in a non-empty vector
TopAffinity(pids) == CHOOSE a \in Affinities(pids) : \A b \in Affinities(pids) : b <= a

\* C13: batch retention. After fill(dht, Some(B)) the vector holds every admitted
\* peer of the maximum affinity, and at least B peers when at least B were
\* admitted, all of them when fewer were; a single admitted peer is retained;
\* of peers of affinity 0, 1, 2, 3 with B = 2 those of affinity 2 and 3 are.
C13_BatchRetention ==
    (filled.op = "fill" /\ filled.batch_len # None) =>
        LET admitted == filled.admitted
            B == filled.batch_len[1]
        IN  /\ \A e \in Entries(admitted) :
                e[1] = TopAffinity(admitted) => e \in Entries(peer_ids)
            /\ Len(peer_ids) >= Min(B, Len(admitted))
            /\ Len(admitted) = 1 => peer_ids = admitted
            /\ ([i \in 1..Len(admitted) |-> admitted[i][1]] = <<0, 1, 2, 3>> /\ B = 2) =>
                peer_ids = SubSeq(admitted, 3, 4)

\* C19: peer iterator cursor. When a fill returns, every peer that was in
\* known_peers has been reached by the cursor of exactly one fill, which took it
\* as a candidate or skipped it as bad: none twice, none never.
C19_CursorReachesEachOnce ==
    filled.op = "fill" =>
        \A i \in 1..filled.known : examined[i].taken + examined[i].skipped = 1

=============================================================================
